---------------------------- MODULE Spec2Model ----------------------------
(***************************************************************************)
(* Amazon sales warehouse pipeline: the curated transformer                *)
(* (step_4_source_to_curated.py) and the consumption stage                 *)
(* (step_5_curated_to_consumption.py: the dimension builders and the fact  *)
(* assembly at the end of main).                                           *)
(*                                                                         *)
(* Tables are the state.  A table whose rows carry a sequence-generated    *)
(* key is a set of records; a curated table, to which a re-run appends     *)
(* rows equal in every column, is a bag.  SQL NULL is a value of its own   *)
(* per column type (NULL text, NULLN number, NULLK product key) and SQL    *)
(* equality (SqlEq) is never true of a NULL, while GROUP BY, PARTITION BY  *)
(* and UNION treat two NULLs as the same value (plain =).                  *)
(***************************************************************************)
EXTENDS Integers, Sequences, FiniteSets, Bags, TLC

VARIABLES
    raw,             \* source.<c>_sales_order: the rows step 3 loaded, per country
    forex,           \* common.exchange_rate: the dates that have a rate row
    curated,         \* curated.<c>_sales_order, per country (a bag of rows)
    region_dim,      \* consumption.region_dim
    product_dim,     \* consumption.product_dim
    promo_code_dim,  \* consumption.promo_code_dim
    customer_dim,    \* consumption.customer_dim
    payment_dim,     \* consumption.payment_dim
    date_dim,        \* consumption.date_dim
    sales_fact,      \* consumption.sales_fact
    seq,             \* last value handed out by each consumption sequence
    failed,          \* the function whose last run raised, "" when none
    date_frame,      \* the frame of lines 396-405: calendar dates with DayCounter
    writers,         \* the builder calls in flight: dimension, position, rows
    overlapped       \* two calls for one dimension have been in flight together

vars == <<raw, forex, curated, region_dim, product_dim, promo_code_dim,
          customer_dim, payment_dim, date_dim, sales_fact, seq, failed,
          date_frame, writers, overlapped>>

dims == <<region_dim, product_dim, promo_code_dim, customer_dim, payment_dim,
          date_dim>>

---------------------------------------------------------------------------
(* Bounds of the model *)

\* rows the source tables hold at most, all countries together
MaxRaw == 2
\* countries whose source table holds rows, in the whole pipeline
MaxCountries == 1
\* copies of one row a curated table holds at most (re-runs append again)
MaxCopies == 2
\* rows a dimension table holds at most
MaxDimRows == 2
\* rows the fact table holds at most
MaxFact == 4
\* the value a sequence may reach
MaxSeq == 4

\* the sessions that may run a dimension builder at the same time
Writers == {"w1", "w2"}

---------------------------------------------------------------------------
(* SQL values *)

NULL == "<null>"
NULLN == 0 - 1
NULLK == << >>

\* SQL "=": unknown (so not a match) as soon as one side is NULL
SqlEq(a, b) == a # NULL /\ b # NULL /\ a = b
SqlEqN(a, b) == a # NULLN /\ b # NULLN /\ a = b
SqlEqK(a, b) == a # NULLK /\ b # NULLK /\ a = b

Countries == {"IN", "US", "FR"}

\* country_details: (table, local currency, country, region, rate column)
country_details ==
    [c \in Countries |->
        CASE c = "US" -> [country |-> "US", region |-> "AMER", rate_col |-> "USD2USD"]
          [] c = "IN" -> [country |-> "IN", region |-> "APAC", rate_col |-> "USD2INR"]
          [] c = "FR" -> [country |-> "FR", region |-> "EU", rate_col |-> "USD2EU"]]

\* order dates of the source rows, and the dates a rate row may exist for
\* (1 has orders, 3 has none; no rate row ever exists for date 2)
Dates == {1, 2}
FxDates == {1, 3}

\* one exchange_rate row (the rate columns are the same on every date here)
ForexRow(d) == [date |-> d, USD2USD |-> 1, USD2INR |-> 80, USD2EU |-> 2]

---------------------------------------------------------------------------
(* Source rows: the columns step 3 loads that the later stages read *)

SourceRow(c, k, oid, dt, ts, pay, ship, contact, mk, promo, provider) ==
    [country_code |-> c, sales_order_key |-> k, order_id |-> oid,
     order_dt |-> dt, last_modified |-> ts,
     payment_status |-> pay, shipping_status |-> ship,
     customer_name |-> "asha",
     phone |-> IF c = "IN" THEN NULL ELSE contact,
     mobile |-> IF c = "IN" THEN contact ELSE NULL,
     shipping_address |-> "12 Park Road",
     mobile_key |-> mk, promotion_code |-> promo,
     final_order_amount |-> 8000, tax_amount |-> 160,
     payment_method |-> "Card", payment_provider |-> provider]

FullKey == <<"Apple", "iPhone", "Black", "128GB">>
ShortKey == <<"Apple", "iPhone", "Black">>

\* the rows the source tables are drawn from
RawPool ==
    { SourceRow("IN", 1, "o1", 1, 1, "Paid", "Delivered", "p1", FullKey, NULL, "Visa"),
      SourceRow("IN", 2, "o2", 1, 2, "Paid", "Delivered", "p2", FullKey, "NA", "Visa"),
      SourceRow("IN", 3, "o3", 1, 2, "Paid", "Delivered", "p1", FullKey, "NA", "Visa"),
      SourceRow("IN", 4, "o4", 2, 1, "Paid", "Delivered", "p2", FullKey, "NA", "Visa"),
      SourceRow("IN", 5, "o5", 2, 2, "Pending", "Delivered", "p1", FullKey, "NA", "Visa"),
      SourceRow("US", 1, "o6", 1, 1, "Paid", "Delivered", "p3", FullKey, "OFF10", "Visa"),
      SourceRow("US", 2, "o7", 2, 1, "Paid", "Delivered", "p3", ShortKey, "OFF10", "Visa"),
      SourceRow("US", 3, "o8", 1, 2, "Paid", "Shipped", "p3", FullKey, "OFF10", "Visa"),
      SourceRow("FR", 1, "o9", 1, 1, "Paid", "Delivered", "p4", FullKey, "NA", NULL) }

---------------------------------------------------------------------------
(* step_4_source_to_curated.py *)

filter_dataset(df, column_name, filter_value) ==
    {r \in df : SqlEq(r[column_name], filter_value)}

\* with_column("Country", lit(country)).with_column("Region", lit(region))
WithCountryRegion(df, c) ==
    {[sale |-> r, Country |-> country_details[c].country,
      Region |-> country_details[c].region] : r \in df}

\* the all-NULL left side of an exchange-rate row that matches no order
NullSale ==
    [sale |-> [country_code |-> NULL, sales_order_key |-> NULLN, order_id |-> NULL,
               order_dt |-> NULLN, last_modified |-> NULLN,
               payment_status |-> NULL, shipping_status |-> NULL,
               customer_name |-> NULL, phone |-> NULL, mobile |-> NULL,
               shipping_address |-> NULL, mobile_key |-> NULLK,
               promotion_code |-> NULL, final_order_amount |-> NULLN,
               tax_amount |-> NULLN, payment_method |-> NULL,
               payment_provider |-> NULL],
     Country |-> NULL, Region |-> NULL]

NullForex == [date |-> NULLN, USD2USD |-> NULLN, USD2INR |-> NULLN, USD2EU |-> NULLN]

\* the same join with join_type="inner": only the matched pairs
InnerJoinForex(sales, fx) ==
    {j \in [l : sales, r : fx] : SqlEqN(j.l.sale.order_dt, j.r.date)}

\* country_sales_df.join(forex_df, order_dt == date, join_type="outer")
OuterJoinForex(sales, fx) ==
    {j \in [l : sales, r : fx] : SqlEqN(j.l.sale.order_dt, j.r.date)}
    \cup {[l |-> s, r |-> NullForex] :
            s \in {x \in sales : \A f \in fx : ~SqlEqN(x.sale.order_dt, f.date)}}
    \cup {[l |-> NullSale, r |-> f] :
            f \in {y \in fx : \A s \in sales : ~SqlEqN(s.sale.order_dt, y.date)}}

\* the same ordering without desc(): ascending, NULLs last
SortsBeforeAscending(a, b) ==
    \/ a # NULLN /\ b = NULLN
    \/ a # NULLN /\ b # NULLN /\ a < b

\* ORDER BY _metadata_last_modified DESC (NULLs last): a sorts before b
SortsBefore(a, b) ==
    \/ a # NULLN /\ b = NULLN
    \/ a # NULLN /\ b # NULLN /\ a > b

\* rank().over(Window.partitionBy(order_dt).order_by(last_modified.desc()))
order_rank(j, df) ==
    1 + Cardinality({k \in df : /\ k.l.sale.order_dt = j.l.sale.order_dt
                                /\ SortsBefore(k.l.sale.last_modified,
                                               j.l.sale.last_modified)})

\* the rows of rank 1; unique_orders is the column of their SALES_ORDER_KEYs
RankOne(df) == {j \in df : order_rank(j, df) = 1}

\* unique_orders.join(sales_with_forext_df, key == key, "inner"): how many
\* times row j of the enriched set comes out of the join
JoinBackCount(j, df) ==
    Cardinality({u \in RankOne(df) :
                    SqlEqN(u.l.sale.sales_order_key, j.l.sale.sales_order_key)})

\* FINAL_ORDER_AMOUNT / rate: NULL as soon as one operand is NULL
SqlDiv(a, b) == IF a = NULLN \/ b = NULLN THEN NULLN ELSE a \div b

\* final_sales_df.select(...): the columns of a curated row
FinalSelect(j, c) ==
    LET rate == j.r[country_details[c].rate_col] IN
    [sales_order_key |-> j.l.sale.sales_order_key,
     order_id |-> j.l.sale.order_id,
     order_dt |-> j.l.sale.order_dt,
     customer_name |-> j.l.sale.customer_name,
     mobile_key |-> j.l.sale.mobile_key,
     country |-> j.l.Country,
     region |-> j.l.Region,
     promotion_code |-> j.l.sale.promotion_code,
     local_total_order_amt |-> j.l.sale.final_order_amount,
     local_tax_amt |-> j.l.sale.tax_amount,
     exchange_rate |-> rate,
     us_total_order_amt |-> SqlDiv(j.l.sale.final_order_amount, rate),
     usd_tax_amt |-> SqlDiv(j.l.sale.tax_amount, rate),
     payment_status |-> j.l.sale.payment_status,
     shipping_status |-> j.l.sale.shipping_status,
     payment_method |-> j.l.sale.payment_method,
     payment_provider |-> j.l.sale.payment_provider,
     contact_no |-> IF c \in {"US", "FR"} THEN j.l.sale.phone ELSE j.l.sale.mobile,
     shipping_address |-> j.l.sale.shipping_address]

\* the enriched set when the second filter reads the unfiltered frame
SalesWithForexFromSource(c, src, fx) ==
    LET shipped_sales_df == filter_dataset(src, "shipping_status", "Delivered")
    IN  OuterJoinForex(WithCountryRegion(shipped_sales_df, c),
                       {ForexRow(d) : d \in fx})

\* the enriched set of one run: filter, country and region, exchange rates
SalesWithForex(c, src, fx) ==
    LET paid_sales_df == filter_dataset(src, "payment_status", "Paid")
        shipped_sales_df == filter_dataset(paid_sales_df, "shipping_status", "Delivered")
    IN  OuterJoinForex(WithCountryRegion(shipped_sales_df, c),
                       {ForexRow(d) : d \in fx})

\* the rows one run of process_sales_order writes, as a bag
FinalSales(c, src, fx) ==
    LET df == SalesWithForex(c, src, fx)
        out == {j \in df : JoinBackCount(j, df) > 0}
        rows == {FinalSelect(j, c) : j \in out}
    IN  [row \in rows |->
            LET js == {j \in out : FinalSelect(j, c) = row}
                n[S \in SUBSET js] ==
                    IF S = {} THEN 0
                    ELSE LET j == CHOOSE x \in S : TRUE
                         IN  JoinBackCount(j, df) + n[S \ {j}]
            IN  n[js]]

---------------------------------------------------------------------------
(* Sequences of the consumption schema *)

SeqNames == {"region_dim_seq", "product_dim_seq", "promo_code_dim_seq",
             "customer_dim_seq", "payment_dim_seq", "date_dim_seq",
             "sales_fact_seq"}

\* <sequence>.nextval over the rows of one statement: every row gets its own
\* value, all greater than the values handed out before; which row gets which
\* is not determined
NextVals(rows, from) ==
    {f \in [rows -> (from + 1) .. (from + Cardinality(rows))] :
        \A a, b \in rows : a # b => f[a] # f[b]}

---------------------------------------------------------------------------
(* step_5_curated_to_consumption.py: the dimension builders *)

\* in_sales_df.union(us_sales_df).union(fr_sales_df): UNION keeps one copy
AllSales(cur) == UNION {BagToSet(cur[c]) : c \in Countries}

NullOf(column) == IF column = "mobile_key" THEN NULLK
                  ELSE IF column = "order_dt" THEN NULLN ELSE NULL

\* the join condition of a join on a list of column names
UsingMatch(a, b, columns) ==
    \A c \in columns : a[c] # NullOf(c) /\ b[c] # NullOf(c) /\ a[c] = b[c]

\* df.join(existing, [columns], join_type="leftanti")
LeftAnti(df, existing, columns) ==
    {r \in df : ~\E e \in existing : UsingMatch(r, e, columns)}

\* save_as_table with mode="overwrite": the frame replaces the table
save_as_table_overwrite(data_df, table) ==
    IF Cardinality(data_df) > 0 THEN data_df ELSE table

\* save_as_table: append when the frame holds rows, otherwise leave the table
save_as_table(data_df, table) ==
    IF Cardinality(data_df) > 0 THEN table \cup data_df ELSE table

\* groupBy(Country, Region) with isActive
RegionGroups(all_sales_df) ==
    {[country |-> r.country, region |-> r.region, isActive |-> "Y"] :
        r \in all_sales_df}

\* region_dim_df.join(existing, Country == Country, "leftanti")
RegionLeftAnti(df, existing) ==
    {r \in df : ~\E e \in existing : SqlEq(r.country, e.country)}

\* split(col("MOBILE_KEY"), "/")[i]: NULL beyond the last segment
SplitPart(mobile_key, i) ==
    IF i + 1 <= Len(mobile_key) THEN mobile_key[i + 1] ELSE NULL

\* the split columns, grouped, with isActive
ProductGroups(all_sales_df) ==
    {[mobile_key |-> r.mobile_key,
      brand |-> SplitPart(r.mobile_key, 0), model |-> SplitPart(r.mobile_key, 1),
      color |-> SplitPart(r.mobile_key, 2), memory |-> SplitPart(r.mobile_key, 3),
      isActive |-> "Y"] : r \in all_sales_df}

\* case when promotion_code is null then 'NA' else promotion_code end
PromoCoalesce(code) == IF code = NULL THEN "NA" ELSE code

PromoGroups(all_sales_df) ==
    {[promotion_code |-> PromoCoalesce(r.promotion_code), country |-> r.country,
      region |-> r.region, isActive |-> "Y"] : r \in all_sales_df}

CustomerGroups(all_sales_df) ==
    {[customer_name |-> r.customer_name, conctact_no |-> r.contact_no,
      shipping_address |-> r.shipping_address, country |-> r.country,
      region |-> r.region, isActive |-> "Y"] : r \in all_sales_df}

PaymentGroups(all_sales_df) ==
    {[payment_method |-> r.payment_method, payment_provider |-> r.payment_provider,
      country |-> r.country, region |-> r.region, isActive |-> "Y"] :
        r \in all_sales_df}

\* selectExpr("<seq>.nextval as <pk>", ...): row r with its key
RegionRow(r, k) == [region_id_pk |-> k, country |-> r.country,
                    region |-> r.region, isActive |-> r.isActive]

ProductRow(r, k) == [product_id_pk |-> k, mobile_key |-> r.mobile_key,
                     brand |-> r.brand, model |-> r.model, color |-> r.color,
                     memory |-> r.memory, isActive |-> r.isActive]

PromoRow(r, k) == [promo_code_id_pk |-> k, promotion_code |-> r.promotion_code,
                   country |-> r.country, region |-> r.region,
                   isActive |-> r.isActive]

\* a customer row whose key is the sequence's first value, not nextval
CustomerRowFirstVal(r, k) ==
    [customer_id_pk |-> 1, customer_name |-> r.customer_name,
     conctact_no |-> r.conctact_no, shipping_address |-> r.shipping_address,
     country |-> r.country, region |-> r.region, isActive |-> r.isActive]

CustomerRow(r, k) == [customer_id_pk |-> k, customer_name |-> r.customer_name,
                      conctact_no |-> r.conctact_no,
                      shipping_address |-> r.shipping_address,
                      country |-> r.country, region |-> r.region,
                      isActive |-> r.isActive]

PaymentRow(r, k) == [payment_id_pk |-> k, payment_method |-> r.payment_method,
                     payment_provider |-> r.payment_provider,
                     country |-> r.country, region |-> r.region,
                     isActive |-> r.isActive]

---------------------------------------------------------------------------
(* Operations *)

\* process_sales_order(country_code): append the run's rows to the country's
\* curated table
process_sales_order(c) ==
    LET out == FinalSales(c, raw[c], forex) IN
    /\ \A row \in BagToSet(out) : CopiesIn(row, curated[c]) + out[row] <= MaxCopies
    /\ curated' = [curated EXCEPT ![c] = @ (+) out]
    /\ failed' = ""
    /\ UNCHANGED <<raw, forex, date_frame, writers, overlapped, dims, sales_fact, seq>>

\* nextval is in the select that the anti-join reads: every grouped row
\* takes a value, kept or not
create_region_dim ==
    LET groups == RegionGroups(AllSales(curated)) IN
      \E key \in NextVals(groups, seq["region_dim_seq"]) :
        LET region_dim_df ==
                RegionLeftAnti({RegionRow(r, key[r]) : r \in groups}, region_dim)
            used == seq["region_dim_seq"] + Cardinality(groups)
        IN  /\ used <= MaxSeq
            /\ Cardinality(save_as_table(region_dim_df, region_dim)) <= MaxDimRows
            /\ region_dim' = save_as_table(region_dim_df, region_dim)
            /\ seq' = [seq EXCEPT !["region_dim_seq"] = used]
            /\ failed' = ""
            /\ UNCHANGED <<raw, forex, date_frame, writers, overlapped, curated, product_dim, promo_code_dim,
                           customer_dim, payment_dim, date_dim, sales_fact>>

create_product_dim ==
    LET fresh == LeftAnti(ProductGroups(AllSales(curated)), product_dim,
                          {"mobile_key", "brand", "model", "color", "memory"}) IN
      \E key \in NextVals(fresh, seq["product_dim_seq"]) :
        LET product_dim_df == {ProductRow(r, key[r]) : r \in fresh}
            used == seq["product_dim_seq"] + Cardinality(fresh)
        IN  /\ used <= MaxSeq
            /\ Cardinality(save_as_table(product_dim_df, product_dim)) <= MaxDimRows
            /\ product_dim' = save_as_table(product_dim_df, product_dim)
            /\ seq' = [seq EXCEPT !["product_dim_seq"] = used]
            /\ failed' = ""
            /\ UNCHANGED <<raw, forex, date_frame, writers, overlapped, curated, region_dim, promo_code_dim,
                           customer_dim, payment_dim, date_dim, sales_fact>>

create_promocode_dim ==
    LET fresh == LeftAnti(PromoGroups(AllSales(curated)), promo_code_dim,
                          {"promotion_code", "country", "region"}) IN
      \E key \in NextVals(fresh, seq["promo_code_dim_seq"]) :
        LET promo_code_dim_df == {PromoRow(r, key[r]) : r \in fresh}
            used == seq["promo_code_dim_seq"] + Cardinality(fresh)
        IN  /\ used <= MaxSeq
            /\ Cardinality(save_as_table(promo_code_dim_df, promo_code_dim)) <= MaxDimRows
            /\ promo_code_dim' = save_as_table(promo_code_dim_df, promo_code_dim)
            /\ seq' = [seq EXCEPT !["promo_code_dim_seq"] = used]
            /\ failed' = ""
            /\ UNCHANGED <<raw, forex, date_frame, writers, overlapped, curated, region_dim, product_dim,
                           customer_dim, payment_dim, date_dim, sales_fact>>

create_customer_dim ==
    LET fresh == LeftAnti(CustomerGroups(AllSales(curated)), customer_dim,
                          {"customer_name", "conctact_no", "shipping_address",
                           "country", "region"}) IN
      \E key \in NextVals(fresh, seq["customer_dim_seq"]) :
        LET customer_dim_df == {CustomerRow(r, key[r]) : r \in fresh}
            used == seq["customer_dim_seq"] + Cardinality(fresh)
        IN  /\ used <= MaxSeq
            /\ Cardinality(save_as_table(customer_dim_df, customer_dim)) <= MaxDimRows
            /\ customer_dim' = save_as_table(customer_dim_df, customer_dim)
            /\ seq' = [seq EXCEPT !["customer_dim_seq"] = used]
            /\ failed' = ""
            /\ UNCHANGED <<raw, forex, date_frame, writers, overlapped, curated, region_dim, product_dim,
                           promo_code_dim, payment_dim, date_dim, sales_fact>>

create_payment_dim ==
    LET fresh == LeftAnti(PaymentGroups(AllSales(curated)), payment_dim,
                          {"payment_method", "payment_provider", "country", "region"}) IN
      \E key \in NextVals(fresh, seq["payment_dim_seq"]) :
        LET payment_dim_df == {PaymentRow(r, key[r]) : r \in fresh}
            used == seq["payment_dim_seq"] + Cardinality(fresh)
        IN  /\ used <= MaxSeq
            /\ Cardinality(save_as_table(payment_dim_df, payment_dim)) <= MaxDimRows
            /\ payment_dim' = save_as_table(payment_dim_df, payment_dim)
            /\ seq' = [seq EXCEPT !["payment_dim_seq"] = used]
            /\ failed' = ""
            /\ UNCHANGED <<raw, forex, date_frame, writers, overlapped, curated, region_dim, product_dim,
                           promo_code_dim, customer_dim, date_dim, sales_fact>>

\* create_date_dim never reaches its append.  On an empty stream
\* pd.date_range(start=None, end=None) raises; otherwise date_dim is a
\* Snowpark DataFrame (line 10, 399), which takes no column assignment
\* (line 400); and the select list of lines 441-455 lacks the comma after
\* day_counter, so the statement save_as_table would run does not compile.
date_dim_error(all_sales_df) ==
    IF all_sales_df = {} THEN "ValueError" ELSE "TypeError"

create_date_dim ==
    /\ failed' = date_dim_error(AllSales(curated))
    /\ UNCHANGED <<raw, forex, date_frame, writers, overlapped, curated, dims, sales_fact, seq>>

---------------------------------------------------------------------------
(* step_5_curated_to_consumption.py: the fact assembly at the end of main *)

\* the promotion code joined as it is stored, NULL included
FactPromoCodeAsStored(code) == code

\* case when promotion_code is null then 'NA' else promotion_code end
FactPromoCode(code) == IF code = NULL THEN "NA" ELSE code

\* the join columns of one dimension, in the order main joins them
FactJoinColumns ==
    [date |-> {"order_dt"},
     customer |-> {"customer_name", "region", "country"},
     payment |-> {"payment_method", "payment_provider", "country", "region"},
     product |-> {"mobile_key"},
     promo |-> {"promotion_code", "country", "region"},
     region |-> {"country", "region"}]

\* the rows of dimension table dim that the inner join pairs with sale row r
Members(r, dim, columns) == {m \in dim : UsingMatch(r, m, columns)}

\* the six inner joins: one element per combination of a sale row with a
\* matching row of every dimension
FactJoin(all_sales_df) ==
    UNION {
        LET s == [r EXCEPT !.promotion_code = FactPromoCode(@)] IN
        [sale : {r},
         date : Members(s, date_dim, FactJoinColumns.date),
         customer : Members(s, customer_dim, FactJoinColumns.customer),
         payment : Members(s, payment_dim, FactJoinColumns.payment),
         product : Members(s, product_dim, FactJoinColumns.product),
         promo : Members(s, promo_code_dim, FactJoinColumns.promo),
         region : Members(s, region_dim, FactJoinColumns.region)]
        : r \in all_sales_df }

\* selectExpr("sales_fact_seq.nextval as order_id_pk", ...)
FactRow(j, k) ==
    [order_id_pk |-> k,
     order_code |-> j.sale.order_id,
     date_id_fk |-> j.date.date_id_pk,
     region_id_fk |-> j.region.region_id_pk,
     customer_id_fk |-> j.customer.customer_id_pk,
     payment_id_fk |-> j.payment.payment_id_pk,
     product_id_fk |-> j.product.product_id_pk,
     promo_code_id_fk |-> j.promo.promo_code_id_pk,
     local_total_order_amt |-> j.sale.local_total_order_amt,
     local_tax_amt |-> j.sale.local_tax_amt,
     exhchange_rate |-> j.sale.exchange_rate,
     us_total_order_amt |-> j.sale.us_total_order_amt,
     usd_tax_amt |-> j.sale.usd_tax_amt]

\* main, from the reads of the dimension tables to the append
FactAssembler ==
    LET joined == FactJoin(AllSales(curated)) IN
    \E key \in NextVals(joined, seq["sales_fact_seq"]) :
        LET rows == {FactRow(j, key[j]) : j \in joined} IN
        /\ Cardinality(sales_fact \cup rows) <= MaxFact
        /\ sales_fact' = sales_fact \cup rows
        /\ seq' = [seq EXCEPT !["sales_fact_seq"] = @ + Cardinality(joined)]
        /\ failed' = ""
        /\ UNCHANGED <<raw, forex, date_frame, writers, overlapped, curated, dims>>

---------------------------------------------------------------------------
(* The pipeline *)

\* the calendar rows date_dim may hold when the pipeline starts: nothing in
\* the sources ever appends to it
LoadedCalendar == {[date_id_pk |-> d, order_dt |-> d] : d \in Dates}

\* the source tables: at most MaxRaw rows of the pool, of at most n countries
SourceTables(n) ==
    {[c \in Countries |-> {r \in S : r.country_code = c}] :
        S \in {T \in SUBSET RawPool :
                  /\ Cardinality(T) <= MaxRaw
                  /\ Cardinality({r.country_code : r \in T}) <= n}}

\* nothing written yet: empty curated, dimension and fact tables
Fresh ==
    /\ curated = [c \in Countries |-> EmptyBag]
    /\ region_dim = {}
    /\ product_dim = {}
    /\ promo_code_dim = {}
    /\ customer_dim = {}
    /\ payment_dim = {}
    /\ sales_fact = {}
    /\ seq = [n \in SeqNames |->
                IF n = "date_dim_seq" THEN Cardinality(date_dim) ELSE 0]
    /\ failed = ""
    /\ date_frame = {}
    /\ writers = [w \in Writers |-> [dim |-> "", pc |-> "idle", rows |-> {}]]
    /\ overlapped = FALSE

Init ==
    /\ raw \in SourceTables(MaxCountries)
    /\ forex \in {{}, FxDates}
    /\ date_dim \in {{}, LoadedCalendar}
    /\ Fresh

Next ==
    \/ \E c \in Countries : process_sales_order(c)
    \/ create_date_dim
    \/ create_region_dim
    \/ create_product_dim
    \/ create_promocode_dim
    \/ create_customer_dim
    \/ create_payment_dim
    \/ FactAssembler

Spec == Init /\ [][Next]_vars

---------------------------------------------------------------------------
(* The curated transformer alone, on every choice of source rows and rates *)

InitCurated ==
    /\ raw \in SourceTables(Cardinality(Countries))
    /\ forex \in SUBSET FxDates
    /\ date_dim = {}
    /\ Fresh

NextCurated == \E c \in Countries : process_sales_order(c)

SpecCurated == InitCurated /\ [][NextCurated]_vars

---------------------------------------------------------------------------
(* create_region_dim as a function of its all_sales_df argument: the curated
   tables hold whatever rows their writers put there *)

CuratedRow(country, region) ==
    [sales_order_key |-> 1, order_id |-> "o1", order_dt |-> 1,
     customer_name |-> "asha", mobile_key |-> FullKey,
     country |-> country, region |-> region, promotion_code |-> "NA",
     local_total_order_amt |-> 8000, local_tax_amt |-> 160,
     exchange_rate |-> 80, us_total_order_amt |-> 100, usd_tax_amt |-> 2,
     payment_status |-> "Paid", shipping_status |-> "Delivered",
     payment_method |-> "Card", payment_provider |-> "Visa",
     contact_no |-> "p1", shipping_address |-> "12 Park Road"]

CuratedPool ==
    {CuratedRow("IN", "APAC"), CuratedRow("IN", "EU"), CuratedRow("US", "AMER")}

\* a writer of the curated tables appends row to the table of its country
LoadCurated(row) ==
    /\ CopiesIn(row, curated[row.country]) < MaxCopies
    /\ curated' = [curated EXCEPT ![row.country] = @ (+) SetToBag({row})]
    /\ failed' = ""
    /\ UNCHANGED <<raw, forex, date_frame, writers, overlapped, dims, sales_fact, seq>>

InitRegion ==
    /\ raw = [c \in Countries |-> {}]
    /\ forex = {}
    /\ date_dim = {}
    /\ Fresh

NextRegion ==
    \/ \E row \in CuratedPool : LoadCurated(row)
    \/ create_region_dim

SpecRegion == InitRegion /\ [][NextRegion]_vars

---------------------------------------------------------------------------
(* Natural keys *)

\* two rows agree on columns, a NULL agreeing with a NULL (as GROUP BY does)
SameKey(a, b, columns) == \A c \in columns : a[c] = b[c]

RegionKey == {"country", "region"}
ProductKey == {"mobile_key"}
PromoKey == {"promotion_code", "country", "region"}
CustomerKey == {"customer_name", "conctact_no", "shipping_address", "country", "region"}
PaymentKey == {"payment_method", "payment_provider", "country", "region"}

\* the rows a run of each builder would append to its table in this state
RegionPending == RegionLeftAnti(RegionGroups(AllSales(curated)), region_dim)
ProductPending ==
    LeftAnti(ProductGroups(AllSales(curated)), product_dim,
             {"mobile_key", "brand", "model", "color", "memory"})
PromoPending == LeftAnti(PromoGroups(AllSales(curated)), promo_code_dim, PromoKey)
CustomerPending == LeftAnti(CustomerGroups(AllSales(curated)), customer_dim, CustomerKey)
PaymentPending == LeftAnti(PaymentGroups(AllSales(curated)), payment_dim, PaymentKey)

\* a step of each builder that wrote to its table or took sequence values
RegionStep == region_dim' # region_dim \/ seq'["region_dim_seq"] # seq["region_dim_seq"]
ProductStep == product_dim' # product_dim
PromoStep == promo_code_dim' # promo_code_dim
CustomerStep == customer_dim' # customer_dim
PaymentStep == payment_dim' # payment_dim
DateStep == failed' # ""
FactStep == sales_fact' # sales_fact

---------------------------------------------------------------------------
(* Claims *)

\* C1: a builder run a second time on the unchanged curated stream, with no
\* writer in between, appends no row and does not fail.  What a run appends is
\* a function of the stream and the table, so the second run appends what is
\* pending in the state the first run left.
C1_SecondRunAppendsNothing ==
    [][ /\ RegionStep => RegionPending' = {}
        /\ ProductStep => ProductPending' = {}
        /\ PromoStep => PromoPending' = {}
        /\ CustomerStep => CustomerPending' = {}
        /\ PaymentStep => PaymentPending' = {}
        /\ DateStep => date_dim_error(AllSales(curated')) = "" ]_vars

\* the natural keys of groups that table did not hold before the step are
\* held by exactly one row of table after it
OneRowPerNewKey(groups, before, after, columns) ==
    \A g \in groups :
        (~\E e \in before : SameKey(e, g, columns))
            => Cardinality({e \in after : SameKey(e, g, columns)}) = 1

\* C2: after one run of a builder, every natural key of the stream that the
\* table did not hold has exactly one row; for the region dimension the key
\* is the pair (country, region).
C2_OneRowPerNewKey ==
    [][ /\ RegionStep => OneRowPerNewKey(RegionGroups(AllSales(curated)),
                                          region_dim, region_dim', RegionKey)
        /\ ProductStep => OneRowPerNewKey(ProductGroups(AllSales(curated)),
                                           product_dim, product_dim', ProductKey)
        /\ PromoStep => OneRowPerNewKey(PromoGroups(AllSales(curated)),
                                         promo_code_dim, promo_code_dim', PromoKey)
        /\ CustomerStep => OneRowPerNewKey(CustomerGroups(AllSales(curated)),
                                            customer_dim, customer_dim', CustomerKey)
        /\ PaymentStep => OneRowPerNewKey(PaymentGroups(AllSales(curated)),
                                           payment_dim, payment_dim', PaymentKey) ]_vars

\* no two rows of table match on columns in the SQL sense (no NULL involved)
NoTwoRows(table, columns) ==
    \A a, b \in table : a # b => ~UsingMatch(a, b, columns)

\* C3: no dimension table holds two rows with the same natural key.
C3_NaturalKeyUnique ==
    /\ NoTwoRows(region_dim, RegionKey)
    /\ NoTwoRows(product_dim, ProductKey)
    /\ NoTwoRows(promo_code_dim, PromoKey)
    /\ NoTwoRows(customer_dim, CustomerKey)
    /\ NoTwoRows(payment_dim, PaymentKey)
    /\ NoTwoRows(date_dim, {"order_dt"})

\* the surrogate keys of table are pairwise distinct
KeysDistinct(table, pk) == \A a, b \in table : a # b => a[pk] # b[pk]

\* rows stay as they are, and every row added got a key above the point the
\* sequence had reached, which never goes back
KeysGrow(before, after, pk, name) ==
    /\ before \subseteq after
    /\ seq'[name] >= seq[name]
    /\ \A r \in after \ before : r[pk] > seq[name] /\ r[pk] <= seq'[name]

\* C4: surrogate keys within one table are pairwise distinct, a row keeps the
\* key it was inserted with, and every key of a later run is greater than
\* every value its sequence handed out before, kept by the anti-join or not.
C4_SurrogateKeys ==
    [][ /\ KeysDistinct(region_dim', "region_id_pk")
        /\ KeysDistinct(product_dim', "product_id_pk")
        /\ KeysDistinct(promo_code_dim', "promo_code_id_pk")
        /\ KeysDistinct(customer_dim', "customer_id_pk")
        /\ KeysDistinct(payment_dim', "payment_id_pk")
        /\ KeysDistinct(date_dim', "date_id_pk")
        /\ KeysDistinct(sales_fact', "order_id_pk")
        /\ KeysGrow(region_dim, region_dim', "region_id_pk", "region_dim_seq")
        /\ KeysGrow(product_dim, product_dim', "product_id_pk", "product_dim_seq")
        /\ KeysGrow(promo_code_dim, promo_code_dim', "promo_code_id_pk",
                    "promo_code_dim_seq")
        /\ KeysGrow(customer_dim, customer_dim', "customer_id_pk", "customer_dim_seq")
        /\ KeysGrow(payment_dim, payment_dim', "payment_id_pk", "payment_dim_seq")
        /\ KeysGrow(date_dim, date_dim', "date_id_pk", "date_dim_seq")
        /\ KeysGrow(sales_fact, sales_fact', "order_id_pk", "sales_fact_seq") ]_vars

\* two runs of the customer builder each added a row, and a second run of the
\* region builder took a sequence value for a row the anti-join discarded
C4_Witness ==
    /\ Cardinality(customer_dim) = 2
    /\ Cardinality({r.country : r \in customer_dim}) = 1
    /\ region_dim # {}
    /\ seq["region_dim_seq"] > Cardinality(region_dim)
    /\ Cardinality(sales_fact) >= 2

\* C5: every step of a builder, of the fact assembly and of the curated
\* transformer leaves each row of every table in place: tables only gain rows.
C5_AppendOnly ==
    [][ /\ region_dim \subseteq region_dim'
        /\ product_dim \subseteq product_dim'
        /\ promo_code_dim \subseteq promo_code_dim'
        /\ customer_dim \subseteq customer_dim'
        /\ payment_dim \subseteq payment_dim'
        /\ date_dim \subseteq date_dim'
        /\ sales_fact \subseteq sales_fact'
        /\ \A c \in Countries : curated[c] \sqsubseteq curated'[c] ]_vars

\* every kind of table was appended to more than once
C5_Witness ==
    /\ Cardinality(product_dim) = 2
    /\ Cardinality(sales_fact) >= 2
    /\ \E c \in Countries : \E row \in BagToSet(curated[c]) :
          CopiesIn(row, curated[c]) = 2

\* fact row f points, in every dimension, to a row that exists and carries the
\* natural key of curated record r
Resolves(f, r) ==
    /\ \E m \in date_dim : m.date_id_pk = f.date_id_fk /\ m.order_dt = r.order_dt
    /\ \E m \in region_dim :
          /\ m.region_id_pk = f.region_id_fk
          /\ m.country = r.country /\ m.region = r.region
    /\ \E m \in customer_dim :
          /\ m.customer_id_pk = f.customer_id_fk
          /\ m.customer_name = r.customer_name /\ m.conctact_no = r.contact_no
          /\ m.shipping_address = r.shipping_address
          /\ m.country = r.country /\ m.region = r.region
    /\ \E m \in payment_dim :
          /\ m.payment_id_pk = f.payment_id_fk
          /\ m.payment_method = r.payment_method
          /\ m.payment_provider = r.payment_provider
          /\ m.country = r.country /\ m.region = r.region
    /\ \E m \in product_dim :
          m.product_id_pk = f.product_id_fk /\ m.mobile_key = r.mobile_key
    /\ \E m \in promo_code_dim :
          /\ m.promo_code_id_pk = f.promo_code_id_fk
          /\ m.promotion_code = PromoCoalesce(r.promotion_code)
          /\ m.country = r.country /\ m.region = r.region

\* C6: every fact row the fact assembly appends carries six foreign keys that
\* are keys of existing dimension rows whose natural key is that of the
\* curated record the row was made from (so a record without a member in some
\* dimension gives no row), and the assembly raises nothing.
C6_ForeignKeysResolve ==
    [][ FactStep =>
          /\ failed' = ""
          /\ \A f \in sales_fact' \ sales_fact :
                \E r \in AllSales(curated) :
                    r.order_id = f.order_code /\ Resolves(f, r) ]_vars

\* every natural key of the curated stream has a row in its dimension table
AllKeysPresent ==
    /\ \A r \in AllSales(curated) : \E m \in date_dim : m.order_dt = r.order_dt
    /\ \A g \in RegionGroups(AllSales(curated)) :
          \E m \in region_dim : SameKey(m, g, RegionKey)
    /\ \A g \in ProductGroups(AllSales(curated)) :
          \E m \in product_dim : SameKey(m, g, ProductKey)
    /\ \A g \in PromoGroups(AllSales(curated)) :
          \E m \in promo_code_dim : SameKey(m, g, PromoKey)
    /\ \A g \in CustomerGroups(AllSales(curated)) :
          \E m \in customer_dim : SameKey(m, g, CustomerKey)
    /\ \A g \in PaymentGroups(AllSales(curated)) :
          \E m \in payment_dim : SameKey(m, g, PaymentKey)

\* C7: when every natural key of the curated stream is in its dimension, a
\* run of the fact assembly appends exactly one fact row per curated record.
C7_OneFactRowPerRecord ==
    [][ (FactStep /\ AllKeysPresent) =>
          /\ Cardinality(sales_fact' \ sales_fact) = Cardinality(AllSales(curated))
          /\ \A r \in AllSales(curated) :
                Cardinality({f \in sales_fact' \ sales_fact :
                                f.order_code = r.order_id}) = 1 ]_vars

\* the promotion-code member "NA" of the country and region of record r
NAMembers(r, table) ==
    {m \in table : /\ m.promotion_code = "NA"
                   /\ m.country = r.country /\ m.region = r.region}

\* the members of the five other dimensions that the fact joins pair with r
OtherMembers(r) ==
    [date : Members(r, date_dim, FactJoinColumns.date),
     customer : Members(r, customer_dim, FactJoinColumns.customer),
     payment : Members(r, payment_dim, FactJoinColumns.payment),
     product : Members(r, product_dim, FactJoinColumns.product),
     region : Members(r, region_dim, FactJoinColumns.region)]

\* C8: a curated record with a NULL promotion_code is handled like one with
\* "NA" of the same country and region.  The promotion-code builder leaves
\* exactly one "NA" member for it and no member with a NULL code; the fact
\* assembly gives it a fact row whenever the other joins and the "NA" member
\* are there, and every fact row of a NULL or "NA" record carries the key of
\* that "NA" member.
C8_NullPromoIsNA ==
    [][ /\ PromoStep =>
             /\ \A m \in promo_code_dim' : m.promotion_code # NULL
             /\ \A r \in AllSales(curated) :
                   r.promotion_code \in {NULL, "NA"}
                       => Cardinality(NAMembers(r, promo_code_dim')) = 1
        /\ FactStep =>
             \A r \in AllSales(curated) :
                 r.promotion_code \in {NULL, "NA"} =>
                     LET made == {f \in sales_fact' \ sales_fact :
                                     f.order_code = r.order_id}
                     IN  /\ (OtherMembers(r) # {} /\ NAMembers(r, promo_code_dim) # {})
                                => made # {}
                         /\ \A f \in made :
                               \E m \in NAMembers(r, promo_code_dim) :
                                   f.promo_code_id_fk = m.promo_code_id_pk ]_vars

\* a NULL-coded order and an "NA" order both have fact rows, with the key of
\* the one promotion-code member
C8_Witness ==
    /\ \E r \in AllSales(curated) : r.order_id = "o1" /\ r.promotion_code = NULL
    /\ \E r \in AllSales(curated) : r.order_id = "o4" /\ r.promotion_code = "NA"
    /\ Cardinality(promo_code_dim) = 1
    /\ \E f, g \in sales_fact :
          /\ f.order_code = "o1" /\ g.order_code = "o4"
          /\ f.promo_code_id_fk = g.promo_code_id_fk
          /\ \E m \in promo_code_dim : m.promo_code_id_pk = f.promo_code_id_fk

\* the source rows of country c that pass both filters
PaidDelivered(c) ==
    {r \in raw[c] : r.payment_status = "Paid" /\ r.shipping_status = "Delivered"}

\* the rows a step appended to the curated table of country c
Written(c) == BagToSet(curated'[c] (-) curated[c])

\* C9: of two Paid and Delivered source rows of one country with the same
\* order date and last-modified T1 < T2, a run of process_sales_order does not
\* write the T1 row and, when no row of that date is later than T2, writes the
\* T2 row.
C9_LatestPerDate ==
    [][ \A c \in Countries :
          curated'[c] # curated[c] =>
            \A a, b \in PaidDelivered(c) :
              (a.order_dt = b.order_dt /\ a.last_modified < b.last_modified) =>
                /\ ~\E w \in Written(c) : w.sales_order_key = a.sales_order_key
                /\ (\A t \in PaidDelivered(c) :
                        t.order_dt = b.order_dt => t.last_modified <= b.last_modified)
                      => \E w \in Written(c) : w.sales_order_key = b.sales_order_key
      ]_vars

\* o1 and o2 share a date and o2 is the later: only o2 is in the curated table
C9_Witness ==
    /\ \E a, b \in PaidDelivered("IN") :
          /\ a.order_id = "o1" /\ b.order_id = "o2"
          /\ a.order_dt = b.order_dt /\ a.last_modified < b.last_modified
    /\ \E w \in BagToSet(curated["IN"]) : w.order_id = "o2"
    /\ ~\E w \in BagToSet(curated["IN"]) : w.order_id = "o1"

\* C10: every row of every curated table has payment_status "Paid" and
\* shipping_status "Delivered".
C10_OnlyPaidDelivered ==
    \A c \in Countries : \A r \in BagToSet(curated[c]) :
        r.payment_status = "Paid" /\ r.shipping_status = "Delivered"

\* a run wrote rows from a source table that also holds a row of another
\* status, with an exchange-rate date that matches no order
C10_Witness ==
    \E c \in Countries :
        /\ curated[c] # EmptyBag
        /\ \E r \in raw[c] : r.payment_status # "Paid" \/ r.shipping_status # "Delivered"
        /\ \E d \in forex : \A r \in raw[c] : r.order_dt # d

\* source row a of country c has no exchange rate for its date and no row of
\* its date is later than it
UnratedWinner(a, c) ==
    /\ a \in PaidDelivered(c)
    /\ \A d \in forex : d # a.order_dt
    /\ \A t \in PaidDelivered(c) :
          t.order_dt = a.order_dt => t.last_modified <= a.last_modified

\* C11: a Paid and Delivered source row whose order date has no exchange rate
\* and that wins deduplication is written by a run of process_sales_order,
\* with a NULL exchange rate and NULL USD total and tax, and the run raises
\* nothing.
C11_MissingRateGivesNulls ==
    [][ \A c \in Countries :
          curated'[c] # curated[c] =>
            /\ failed' = ""
            /\ \A a \in raw[c] :
                  UnratedWinner(a, c) =>
                    /\ \E w \in Written(c) : w.sales_order_key = a.sales_order_key
                    /\ \A w \in Written(c) :
                          w.sales_order_key = a.sales_order_key =>
                            /\ w.exchange_rate = NULLN
                            /\ w.us_total_order_amt = NULLN
                            /\ w.usd_tax_amt = NULLN
                            /\ w.local_total_order_amt = a.final_order_amount
      ]_vars

\* the exchange-rate table has rates, none for the date of o4, and o4 is in
\* the curated table without a rate, next to a row that has one
C11_Witness ==
    /\ forex # {}
    /\ \E a \in raw["IN"] : a.order_id = "o4" /\ UnratedWinner(a, "IN")
    /\ \E w \in BagToSet(curated["IN"]) :
          w.order_id = "o4" /\ w.exchange_rate = NULLN /\ w.us_total_order_amt = NULLN
    /\ \E w \in BagToSet(curated["IN"]) : w.exchange_rate # NULLN

\* select(min("order_dt")) and select(max("order_dt")) of a non-empty stream
MinOrderDt(all_sales_df) ==
    CHOOSE m \in {r.order_dt : r \in all_sales_df} :
        \A r \in all_sales_df : m <= r.order_dt

MaxOrderDt(all_sales_df) ==
    CHOOSE m \in {r.order_dt : r \in all_sales_df} :
        \A r \in all_sales_df : m >= r.order_dt

\* C12: after create_date_dim ran on a non-empty stream, date_dim holds
\* exactly one row for every calendar date from the least to the greatest
\* order date of the stream, whatever it held before.
C12_OneRowPerCalendarDate ==
    [][ (DateStep /\ AllSales(curated) # {}) =>
          \A d \in MinOrderDt(AllSales(curated)) .. MaxOrderDt(AllSales(curated)) :
              Cardinality({r \in date_dim' : r.order_dt = d}) = 1 ]_vars

\* C14: on an empty curated stream create_date_dim does nothing and does not
\* fail.  The curated tables only grow, so an exception on record while they
\* are empty was raised by a run on the empty stream.
C14_EmptyStreamNoOp ==
    AllSales(curated) = {} => failed = ""

---------------------------------------------------------------------------
(* The calendar frame of create_date_dim, lines 396-405, as the computation *)
(* on a pandas frame that the arithmetic is written for.  In                *)
(* create_date_dim as it stands line 400 raises before line 405 is reached. *)

\* calendar dates as day numbers; day 365 ends a year and day 366 begins one
CalendarDates == 363 .. 367

\* DatetimeIndex.dayofyear, for years of 365 days
dayofyear(d) == ((d - 1) % 365) + 1

\* a curated row with order date d
CalendarRow(d) ==
    [CuratedRow("IN", "APAC") EXCEPT !.order_dt = d, !.sales_order_key = d]

\* date_range = pd.date_range(start_date, end_date, freq="D") with
\* DayCounter = date_range.dayofyear - start_day_of_year + 1
DayCounterFrame(start_date, end_date) ==
    LET start_day_of_year == dayofyear(start_date) IN
    {[order_dt |-> d, DayCounter |-> dayofyear(d) - start_day_of_year + 1] :
        d \in start_date .. end_date}

build_date_frame ==
    /\ AllSales(curated) # {}
    /\ date_frame' = DayCounterFrame(MinOrderDt(AllSales(curated)),
                                     MaxOrderDt(AllSales(curated)))
    /\ UNCHANGED <<raw, forex, curated, dims, sales_fact, seq, failed, writers,
                   overlapped>>

InitCalendar ==
    /\ raw = [c \in Countries |-> {}]
    /\ forex = {}
    /\ date_dim = {}
    /\ Fresh

NextCalendar ==
    \/ \E d \in CalendarDates : LoadCurated(CalendarRow(d))
    \/ build_date_frame

SpecCalendar == InitCalendar /\ [][NextCalendar]_vars

\* C13: the day counter is relative to the least date of the range: that date
\* gets 1 and every following calendar day one more, so the counters of one
\* range are positive and pairwise distinct, across a year boundary too.
C13_DayCounterFromMinimum ==
    \A r \in date_frame :
        /\ r.DayCounter > 0
        /\ \A q \in date_frame :
              /\ q.order_dt # r.order_dt => q.DayCounter # r.DayCounter
              /\ q.order_dt = r.order_dt + 1 => q.DayCounter = r.DayCounter + 1
        /\ (\A q \in date_frame : r.order_dt <= q.order_dt) => r.DayCounter = 1

---------------------------------------------------------------------------
(* One run of the consumption stage *)

\* main, lines 460-587: the first call, create_date_dim at line 472, raises
\* and nothing catches it, so the run ends there; the calls of lines 473-478
\* and the fact assembly of lines 480-587 are not reached
main == create_date_dim

InitMain == InitCurated

NextMain ==
    \/ \E c \in Countries : process_sales_order(c)
    \/ main

\* a started run of main goes on until it ends
SpecMain == InitMain /\ [][NextMain]_vars /\ WF_vars(main)

\* curated record r has no NULL in a natural-key column and a full product key
WellFormed(r) ==
    /\ r.payment_provider # NULL /\ r.payment_method # NULL
    /\ r.contact_no # NULL /\ r.shipping_address # NULL /\ r.customer_name # NULL
    /\ Len(r.mobile_key) = 4

C16_ShortKeyFails ==
    \A m \in product_dim :
        m.brand # NULL /\ m.model # NULL /\ m.color # NULL /\ m.memory # NULL

\* C17: in the rows one run of process_sales_order writes for a country each
\* order date is the date of at most one row.
C17_OneRowPerOrderDate ==
    [][ \A c \in Countries :
          curated'[c] # curated[c] =>
            \A v, w \in Written(c) :
                v.order_dt = w.order_dt =>
                    v = w /\ CopiesIn(w, curated'[c] (-) curated[c]) = 1 ]_vars

---------------------------------------------------------------------------
(* Two sessions running dimension builders at the same time.  A builder's   *)
(* frames are lazy: the table is read when save_as_table counts the frame   *)
(* (line 61) and again by the INSERT ... SELECT of line 64, which reads the  *)
(* rows committed when it starts and commits its own rows when it ends.     *)

ConcurrentDims == {"customer", "product"}

\* the curated rows of these runs: one full product key, one short
ConcurrentPool ==
    {CuratedRow("IN", "APAC"),
     [CuratedRow("IN", "APAC") EXCEPT !.order_id = "o7", !.sales_order_key = 2,
                                      !.mobile_key = ShortKey]}

\* the frame a builder of dimension dim hands to save_as_table
BuilderFrame(dim) == IF dim = "customer" THEN CustomerPending ELSE ProductPending

BuilderSeq(dim) == IF dim = "customer" THEN "customer_dim_seq" ELSE "product_dim_seq"

BuilderRow(dim, r, k) == IF dim = "customer" THEN CustomerRow(r, k) ELSE ProductRow(r, k)

\* a session calls create_customer_dim or create_product_dim
begin_build(w, dim) ==
    /\ writers[w].pc = "idle"
    /\ writers' = [writers EXCEPT ![w] = [dim |-> dim, pc |-> "count", rows |-> {}]]
    /\ overlapped' = (overlapped \/ \E v \in Writers \ {w} :
                                        writers[v].pc # "idle" /\ writers[v].dim = dim)
    /\ UNCHANGED <<raw, forex, curated, dims, sales_fact, seq, failed, date_frame>>

\* save_as_table, line 61-62: data_df.count() > 0
count_rows(w) ==
    /\ writers[w].pc = "count"
    /\ writers' = [writers EXCEPT ![w] =
                      IF BuilderFrame(writers[w].dim) # {}
                      THEN [@ EXCEPT !.pc = "insert"]
                      ELSE [dim |-> "", pc |-> "idle", rows |-> {}]]
    /\ UNCHANGED <<raw, forex, curated, dims, sales_fact, seq, failed, date_frame,
                   overlapped>>

\* save_as_table, line 64: the insert evaluates the frame, keys included
insert_select(w) ==
    LET dim == writers[w].dim
        fresh == BuilderFrame(dim)
        used == seq[BuilderSeq(dim)] + Cardinality(fresh)
    IN  /\ writers[w].pc = "insert"
        /\ used <= MaxSeq
        /\ \E key \in NextVals(fresh, seq[BuilderSeq(dim)]) :
              writers' = [writers EXCEPT ![w] =
                             [dim |-> dim, pc |-> "commit",
                              rows |-> {BuilderRow(dim, r, key[r]) : r \in fresh}]]
        /\ seq' = [seq EXCEPT ![BuilderSeq(dim)] = used]
        /\ UNCHANGED <<raw, forex, curated, dims, sales_fact, failed, date_frame,
                       overlapped>>

\* the insert commits: its rows are in the table
insert_commit(w) ==
    /\ writers[w].pc = "commit"
    /\ IF writers[w].dim = "customer"
       THEN /\ Cardinality(customer_dim \cup writers[w].rows) <= MaxDimRows
            /\ customer_dim' = customer_dim \cup writers[w].rows
            /\ UNCHANGED product_dim
       ELSE /\ Cardinality(product_dim \cup writers[w].rows) <= MaxDimRows
            /\ product_dim' = product_dim \cup writers[w].rows
            /\ UNCHANGED customer_dim
    /\ writers' = [writers EXCEPT ![w] = [dim |-> "", pc |-> "idle", rows |-> {}]]
    /\ UNCHANGED <<raw, forex, curated, region_dim, promo_code_dim, payment_dim,
                   date_dim, sales_fact, seq, failed, date_frame, overlapped>>

InitConcurrent == InitRegion

NextConcurrent ==
    \/ \E row \in ConcurrentPool : LoadCurated(row)
    \/ \E w \in Writers, dim \in ConcurrentDims : begin_build(w, dim)
    \/ \E w \in Writers : count_rows(w)
    \/ \E w \in Writers : insert_select(w)
    \/ \E w \in Writers : insert_commit(w)

SpecConcurrent == InitConcurrent /\ [][NextConcurrent]_vars

\* C18: two builders of one dimension in flight together can both read the
\* table before either appends and leave two rows with one natural key (the
\* state C18_RaceDuplicates); as long as no two builders of one dimension
\* have been in flight together, builders of different dimensions included,
\* no table holds two rows with one natural key.
C18_SerializedNoDuplicate ==
    ~overlapped =>
        /\ NoTwoRows(customer_dim, CustomerKey)
        /\ NoTwoRows(product_dim, ProductKey)

\* both sessions ran create_customer_dim together and each appended a row for
\* the same customer
C18_RaceDuplicates ==
    /\ overlapped
    /\ \E a, b \in customer_dim :
          a.customer_id_pk # b.customer_id_pk /\ UsingMatch(a, b, CustomerKey)

\* the same for full product keys only: this holds, the rows that break
\* C18_SerializedNoDuplicate are those of a three-segment product key
C18_SerializedFullKeys ==
    ~overlapped =>
        /\ NoTwoRows(customer_dim, CustomerKey)
        /\ \A a, b \in product_dim :
              (a # b /\ Len(a.mobile_key) = 4) => ~UsingMatch(a, b, ProductKey)

\* fact rows f and g differ in their surrogate key only
SameButKey(f, g) ==
    /\ f.order_id_pk # g.order_id_pk
    /\ [f EXCEPT !.order_id_pk = 0] = [g EXCEPT !.order_id_pk = 0]

\* C19: a second run of the consumption stage on the unchanged curated tables
\* leaves the dimension tables as the first run left them, and the fact
\* assembly, which does not look at the fact table, appends for every curated
\* record that matches all dimensions one fact row again, so two runs leave
\* two rows that differ in the surrogate key only.  Per run: a builder that
\* appended has nothing left to append, and the fact assembly appends exactly
\* one row for every matching record and none for the others.
C19_RerunDoublesFactRows ==
    [][ /\ (RegionStep \/ ProductStep \/ PromoStep \/ CustomerStep \/ PaymentStep) =>
              /\ RegionStep => RegionPending' = {}
              /\ ProductStep => ProductPending' = {}
              /\ PromoStep => PromoPending' = {}
              /\ CustomerStep => CustomerPending' = {}
              /\ PaymentStep => PaymentPending' = {}
        /\ FactStep =>
              \A r \in AllSales(curated) :
                  LET made == {f \in sales_fact' \ sales_fact :
                                  f.order_code = r.order_id}
                      matched == \E j \in FactJoin(AllSales(curated)) : j.sale = r
                  IN  /\ Cardinality(made) = (IF matched THEN 1 ELSE 0)
                      /\ \A f \in made : \A g \in sales_fact :
                            g.order_code = r.order_id => SameButKey(f, g) ]_vars

\* two runs of the fact assembly left two rows for one order that differ in
\* the surrogate key only
C19_Witness ==
    \E f, g \in sales_fact : SameButKey(f, g)

===========================================================================
